---- MODULE Spec2Model ----
(***************************************************************************)
(* Model of collectors/deployments_collector.go: the DeploymentsCollector  *)
(* of bosh_exporter.  The collector owns three GaugeVec containers         *)
(* (release_info, stemcell_info, instance_count) and two plain gauges      *)
(* (last scrape timestamp, last scrape duration).  Collect is modelled     *)
(* statement by statement, one action per access to a shared container,    *)
(* so that the same actions give the serialized behaviour (Spec), the      *)
(* serialized behaviour under a moving clock (SpecClock) and the behaviour *)
(* under two concurrent callers (SpecConc).                                *)
(***************************************************************************)
EXTENDS Integers, Sequences, FiniteSets, TLC

(***************************************************************************)
(* Bounds of the model.                                                    *)
(***************************************************************************)
\* total number of release, stemcell and instance records of one snapshot
MaxRecords == 2
\* the same, and the number of deployments, for the snapshots of the
\* specifications that add concurrent callers or a moving clock
MaxSmallRecords == 1
MaxSmallDeployments == 1
\* largest reading of the wall clock (seconds)
MaxClock == 3

(***************************************************************************)
(* The input domain: deployments.DeploymentInfo values.                    *)
(***************************************************************************)
DeploymentNames == {"d1", "d2"}
ReleaseRecs == {[Name |-> "r1", Version |-> "1"], [Name |-> "r1", Version |-> "2"]}
StemcellRecs == {[Name |-> "s1", Version |-> "3.4", OSName |-> "ubuntu"]}
VMTypes == {"small", "large"}
InstanceRecs == {[VMType |-> t] : t \in VMTypes}

SeqsUpTo(S, n) == UNION {[1..k -> S] : k \in 0..n}

InfoSize(d) == Len(d.Releases) + Len(d.Stemcells) + Len(d.Instances)

DeploymentInfosUpTo(n) ==
  {d \in [Name : DeploymentNames,
          Releases : SeqsUpTo(ReleaseRecs, n),
          Stemcells : SeqsUpTo(StemcellRecs, n),
          Instances : SeqsUpTo(InstanceRecs, n)] : InfoSize(d) <= n}

\* snapshots: sequences of deployments with unique names
SnapshotsUpTo(n) ==
  {<<>>}
    \cup {<<d>> : d \in DeploymentInfosUpTo(n)}
    \cup {s \in {<<a, b>> : a \in DeploymentInfosUpTo(n), b \in DeploymentInfosUpTo(n)} :
            /\ s[1].Name # s[2].Name
            /\ InfoSize(s[1]) + InfoSize(s[2]) <= n}

Snapshots == SnapshotsUpTo(MaxRecords)
SmallSnapshots == {S \in SnapshotsUpTo(MaxSmallRecords) : Len(S) <= MaxSmallDeployments}

(***************************************************************************)
(* The callers.                                                            *)
(***************************************************************************)
Procs == {"p1", "p2"}
\* the one caller of a scheduler that serializes its scrapes
Scheduler == {"p1"}

(***************************************************************************)
(* Metric families and the containers that hold them.  A GaugeVec is a map *)
(* from a tuple of label values to the value of the child gauge.           *)
(***************************************************************************)
ReleaseInfo == "release_info"
StemcellInfo == "stemcell_info"
InstanceCount == "instance_count"
ScrapeTimestamp == "last_deployments_scrape_timestamp"
ScrapeDuration == "last_deployments_scrape_duration_seconds"

Families == <<ReleaseInfo, StemcellInfo, InstanceCount, ScrapeTimestamp, ScrapeDuration>>
DeploymentFamilies == {ReleaseInfo, StemcellInfo, InstanceCount}

NewGaugeVec == [l \in {} |-> 0]

\* (mutation of Reset: the children are kept)
ResetKeepsChildren(vec) == vec

\* GaugeVec.Reset: delete every child
Reset(vec) == NewGaugeVec

\* GaugeVec.WithLabelValues: the child for these label values, created with
\* value 0 when the vector has none
WithLabelValues(vec, lvs) ==
  IF lvs \in DOMAIN vec
    THEN vec
    ELSE [l \in DOMAIN vec \cup {lvs} |-> IF l = lvs THEN 0 ELSE vec[l]]

\* (mutation of SetChild: Add in place of Set)
AddToChild(vec, lvs, v) == [vec EXCEPT ![lvs] = @ + v]

\* Gauge.Set on a child that is still in the vector
SetChild(vec, lvs, v) == [vec EXCEPT ![lvs] = v]

\* GaugeVec.Collect: one sample per child, sent under the vector's lock; the
\* sample carries the value the child has when it is sent
CollectVec(vec) == {[labels |-> l, value |-> vec[l]] : l \in DOMAIN vec}

\* Gauge.Collect: the gauge's one sample
CollectGauge(v) == {[labels |-> <<>>, value |-> v]}


(***************************************************************************)
(* Pure parts of the report functions.                                     *)
(***************************************************************************)
\* the value written to every release_info and stemcell_info child
InfoValue == 1

ReleaseLabels(deployment, release) == <<deployment.Name, release.Name, release.Version>>

StemcellLabels(deployment, stemcell) ==
  <<deployment.Name, stemcell.Name, stemcell.Version, stemcell.OSName>>

InstanceLabels(deployment, vm_type) == <<deployment.Name, vm_type>>

\* (mutation of Increment: the count is marked, not incremented)
IncrementToOne(m, k) == [x \in DOMAIN m \cup {k} |-> IF x = k THEN InfoValue ELSE m[x]]

\* vm_type_count[k] = vm_type_count[k] + 1, a missing key reading as 0
Increment(m, k) ==
  [x \in DOMAIN m \cup {k} |-> (IF x \in DOMAIN m THEN m[x] ELSE 0) + (IF x = k THEN 1 ELSE 0)]

\* the tally loop of reportDeploymentInstanceCountMetrics
RECURSIVE TallyFrom(_, _, _)
TallyFrom(instances, i, m) ==
  IF i > Len(instances)
    THEN m
    ELSE TallyFrom(instances, i + 1, Increment(m, instances[i].VMType))

Tally(instances) == TallyFrom(instances, 1, [t \in {} |-> 0])

\* the count written to the instance_count child of one VM type
CountValue(m, vm_type) == m[vm_type]

\* (mutation of DeploymentsLoop: the last deployment is left out)
DeploymentsLoopStopsEarly(S, n) ==
  IF n + 1 < Len(S) THEN "releases" ELSE "collectReleaseInfo"

\* where the loop over the deployments goes once n deployments are reported
DeploymentsLoop(S, n) == IF n < Len(S) THEN "releases" ELSE "collectReleaseInfo"

\* (mutation of NextIndex: the range does not advance)
NextIndexStays(i) == i

\* the index of the record that a range over releases or stemcells visits next
NextIndex(i) == i + 1

\* the clock is read in ticks of half a second
TicksPerSecond == 2

\* time.Time.Unix(): the whole seconds of a reading of the clock
Unix(t) == t \div TicksPerSecond

\* (mutation of Since: the operands taken the other way round)
SinceReversed(t, b) == b - t

\* time.Since(begun).Seconds(): the time elapsed from b to t, in ticks, which stand
\* for the fractional seconds of the float64
Since(t, b) == t - b

\* the (deployment, vm_type) pairs with at least one instance in a snapshot
InstancePairs(S) ==
  UNION {{<<S[i].Name, S[i].Instances[j].VMType>> : j \in DOMAIN S[i].Instances} :
           i \in DOMAIN S}

\* the number of instances of a snapshot with this (deployment, vm_type) pair
InstanceTotal(S, lvs) ==
  Cardinality(UNION {{<<i, j>> : j \in {k \in DOMAIN S[i].Instances :
                                          <<S[i].Name, S[i].Instances[k].VMType>> = lvs}} :
                       i \in DOMAIN S})

\* what serialized calls have left for instance_count once a call with snapshot S
\* is over, given what they had left before it: nothing is withdrawn, and the pairs
\* of S carry the tally of S
SeenAfter(old, S) ==
  [lvs \in DOMAIN old \cup InstancePairs(S) |->
     IF lvs \in InstancePairs(S) THEN InstanceTotal(S, lvs) ELSE old[lvs]]

(***************************************************************************)
(* State.                                                                  *)
(***************************************************************************)
VARIABLES
  deploymentReleaseInfoMetric,                 \* GaugeVec release_info
  deploymentStemcellInfoMetric,                \* GaugeVec stemcell_info
  deploymentInstanceCountMetric,               \* GaugeVec instance_count
  lastDeploymentsScrapeTimestampMetric,        \* Gauge
  lastDeploymentsScrapeDurationSecondsMetric,  \* Gauge
  now,            \* the latest reading of the wall clock
  pc,             \* per caller: the statement of Collect it is at
  snap,           \* per caller: the deployments argument of its (last) Collect
  begun,          \* per caller: the local begun
  reported,       \* per caller: deployments whose three report calls are done
  ri,             \* per caller: index into the releases / stemcells being ranged over
  vm_type_count,  \* per caller: the local tally map
  todo,           \* per caller: keys of vm_type_count still to be ranged over
  child,          \* per caller: the gauge returned by WithLabelValues, until Set
  out,            \* per caller: what its (last) Collect sent on ch, in order
  returned,       \* per caller: the result of its last Collect
  stale,          \* per caller: its (last) Collect found in release_info or in
                  \* stemcell_info a label combination its snapshot does not have
  prevOut,        \* per caller: the deployment-scoped samples its previous Collect
                  \* sent, when the running Collect was given the same snapshot again
  descs,          \* what a Describe sent on its channel, until its caller read it
  seen            \* the instance_count pairs of every snapshot passed to Collect so
                  \* far, each with its tally in the latest snapshot that had it

vars == <<deploymentReleaseInfoMetric, deploymentStemcellInfoMetric,
          deploymentInstanceCountMetric, lastDeploymentsScrapeTimestampMetric,
          lastDeploymentsScrapeDurationSecondsMetric, now, pc, snap, begun, reported,
          ri, vm_type_count, todo, child, out, returned, stale, prevOut, descs, seen>>

containers == <<deploymentReleaseInfoMetric, deploymentStemcellInfoMetric,
                deploymentInstanceCountMetric, lastDeploymentsScrapeTimestampMetric,
                lastDeploymentsScrapeDurationSecondsMetric>>

locals == <<snap, begun, reported, ri, vm_type_count, todo, child, out, returned, stale,
            prevOut>>

NoChild == [labels |-> <<>>, live |-> FALSE]
NoOut == <<[family |-> "none", samples |-> {}]>>

\* NewDeploymentsCollector: five empty containers; no call made yet
Init ==
  /\ deploymentReleaseInfoMetric = NewGaugeVec
  /\ deploymentStemcellInfoMetric = NewGaugeVec
  /\ deploymentInstanceCountMetric = NewGaugeVec
  /\ lastDeploymentsScrapeTimestampMetric = 0
  /\ lastDeploymentsScrapeDurationSecondsMetric = 0
  /\ now = 0
  /\ pc = [p \in Procs |-> "idle"]
  /\ snap = [p \in Procs |-> <<>>]
  /\ begun = [p \in Procs |-> 0]
  /\ reported = [p \in Procs |-> 0]
  /\ ri = [p \in Procs |-> 0]
  /\ vm_type_count = [p \in Procs |-> [t \in {} |-> 0]]
  /\ todo = [p \in Procs |-> {}]
  /\ child = [p \in Procs |-> NoChild]
  /\ out = [p \in Procs |-> <<>>]
  /\ returned = [p \in Procs |-> "none"]
  /\ stale = [p \in Procs |-> FALSE]
  /\ prevOut = [p \in Procs |-> NoOut]
  /\ descs = <<>>
  /\ seen = [lvs \in {} |-> 0]

\* the deployment the loop of Collect is at
Deployment(p) == snap[p][reported[p] + 1]

\* ch <- every sample of one family
Send(p, family, samples) ==
  out' = [out EXCEPT ![p] = Append(@, [family |-> family, samples |-> samples])]


(***************************************************************************)
(* Collect, statement by statement.                                        *)
(***************************************************************************)
\* the label combinations of a snapshot's releases and stemcells
ReleaseCombos(S) ==
  UNION {{<<S[i].Name, S[i].Releases[j].Name, S[i].Releases[j].Version>> :
            j \in DOMAIN S[i].Releases} : i \in DOMAIN S}

StemcellCombos(S) ==
  UNION {{<<S[i].Name, S[i].Stemcells[j].Name, S[i].Stemcells[j].Version,
            S[i].Stemcells[j].OSName>> : j \in DOMAIN S[i].Stemcells} : i \in DOMAIN S}

\* the vectors hold a release or stemcell combination that snapshot S does not have
StaleFor(S) ==
  \/ DOMAIN deploymentReleaseInfoMetric \ ReleaseCombos(S) # {}
  \/ DOMAIN deploymentStemcellInfoMetric \ StemcellCombos(S) # {}

\* time.Now(): a reading of the clock, not before the latest one and not after h
TimeNow(h) == now..h

\* the entry of Collect with snapshot S:  var begun = time.Now()
Enter(p, S, prev, h) ==
  /\ \E t \in TimeNow(h) :
       /\ now' = t
       /\ begun' = [begun EXCEPT ![p] = t]
  /\ snap' = [snap EXCEPT ![p] = S]
  /\ reported' = [reported EXCEPT ![p] = 0]
  /\ out' = [out EXCEPT ![p] = <<>>]
  /\ returned' = [returned EXCEPT ![p] = "pending"]
  /\ stale' = [stale EXCEPT ![p] = StaleFor(S)]
  /\ prevOut' = [prevOut EXCEPT ![p] = prev]
  /\ pc' = [pc EXCEPT ![p] = "resetReleaseInfo"]
  /\ seen' = SeenAfter(seen, S)
  /\ UNCHANGED <<containers, ri, vm_type_count, todo, child, descs>>

\* a caller that holds no earlier result calls Collect with snapshot S
Collect(p, S, h) ==
  /\ pc[p] = "idle"
  /\ Enter(p, S, NoOut, h)

\* the samples of the three deployment-scoped families in what a call sent
DeploymentBatches(sent) ==
  SelectSeq(sent, LAMBDA b : b.family \in DeploymentFamilies)

\* a caller whose Collect has returned calls it again with the same snapshot
CollectAgain(p, h) ==
  /\ pc[p] = "returned"
  /\ Enter(p, snap[p], DeploymentBatches(out[p]), h)

\* a caller whose Collect has returned lets go of the snapshot and the samples
Discard(p) ==
  /\ pc[p] = "returned"
  /\ snap' = [snap EXCEPT ![p] = <<>>]
  /\ out' = [out EXCEPT ![p] = <<>>]
  /\ reported' = [reported EXCEPT ![p] = 0]
  /\ stale' = [stale EXCEPT ![p] = FALSE]
  /\ prevOut' = [prevOut EXCEPT ![p] = NoOut]
  /\ pc' = [pc EXCEPT ![p] = "idle"]
  /\ UNCHANGED <<containers, now, begun, ri, vm_type_count, todo, child, returned, descs, seen>>

\* a Reset detaches the children that callers hold from the vector
Detached(at) ==
  [q \in Procs |-> IF pc[q] = at THEN [child[q] EXCEPT !.live = FALSE] ELSE child[q]]

\* c.deploymentReleaseInfoMetric.Reset()
ResetReleaseInfo(p) ==
  /\ pc[p] = "resetReleaseInfo"
  /\ deploymentReleaseInfoMetric' = Reset(deploymentReleaseInfoMetric)
  /\ child' = Detached("setReleaseInfo")
  /\ pc' = [pc EXCEPT ![p] = "resetStemcellInfo"]
  /\ UNCHANGED <<deploymentStemcellInfoMetric, deploymentInstanceCountMetric,
                 lastDeploymentsScrapeTimestampMetric,
                 lastDeploymentsScrapeDurationSecondsMetric, now, snap, begun, reported,
                 ri, vm_type_count, todo, out, returned, stale, prevOut, descs, seen>>

\* c.deploymentStemcellInfoMetric.Reset(), then the head of the loop over deployments
ResetStemcellInfo(p) ==
  /\ pc[p] = "resetStemcellInfo"
  /\ deploymentStemcellInfoMetric' = Reset(deploymentStemcellInfoMetric)
  /\ child' = Detached("setStemcellInfo")
  /\ ri' = [ri EXCEPT ![p] = 1]
  /\ pc' = [pc EXCEPT ![p] = DeploymentsLoop(snap[p], 0)]
  /\ UNCHANGED <<deploymentReleaseInfoMetric, deploymentInstanceCountMetric,
                 lastDeploymentsScrapeTimestampMetric,
                 lastDeploymentsScrapeDurationSecondsMetric, now, snap, begun, reported,
                 vm_type_count, todo, out, returned, stale, prevOut, descs, seen>>

\* reportDeploymentReleaseInfoMetrics: the loop head and WithLabelValues(...)
ReportReleaseInfo(p) ==
  /\ pc[p] = "releases"
  /\ IF ri[p] <= Len(Deployment(p).Releases)
       THEN LET lvs == ReleaseLabels(Deployment(p), Deployment(p).Releases[ri[p]])
            IN /\ deploymentReleaseInfoMetric' =
                    WithLabelValues(deploymentReleaseInfoMetric, lvs)
               /\ child' = [child EXCEPT ![p] = [labels |-> lvs, live |-> TRUE]]
               /\ pc' = [pc EXCEPT ![p] = "setReleaseInfo"]
               /\ UNCHANGED ri
       ELSE /\ ri' = [ri EXCEPT ![p] = 1]
            /\ pc' = [pc EXCEPT ![p] = "stemcells"]
            /\ UNCHANGED <<deploymentReleaseInfoMetric, child>>
  /\ UNCHANGED <<deploymentStemcellInfoMetric, deploymentInstanceCountMetric,
                 lastDeploymentsScrapeTimestampMetric,
                 lastDeploymentsScrapeDurationSecondsMetric, now, snap, begun, reported,
                 vm_type_count, todo, out, returned, stale, prevOut, descs, seen>>

\* reportDeploymentReleaseInfoMetrics: .Set(float64(1)) on the child obtained
SetReleaseInfo(p) ==
  /\ pc[p] = "setReleaseInfo"
  /\ deploymentReleaseInfoMetric' =
       IF child[p].live
         THEN SetChild(deploymentReleaseInfoMetric, child[p].labels, InfoValue)
         ELSE deploymentReleaseInfoMetric
  /\ child' = [child EXCEPT ![p] = NoChild]
  /\ ri' = [ri EXCEPT ![p] = NextIndex(@)]
  /\ pc' = [pc EXCEPT ![p] = "releases"]
  /\ UNCHANGED <<deploymentStemcellInfoMetric, deploymentInstanceCountMetric,
                 lastDeploymentsScrapeTimestampMetric,
                 lastDeploymentsScrapeDurationSecondsMetric, now, snap, begun, reported,
                 vm_type_count, todo, out, returned, stale, prevOut, descs, seen>>

\* reportDeploymentStemcellInfoMetrics: the loop head and WithLabelValues(...)
ReportStemcellInfo(p) ==
  /\ pc[p] = "stemcells"
  /\ IF ri[p] <= Len(Deployment(p).Stemcells)
       THEN LET lvs == StemcellLabels(Deployment(p), Deployment(p).Stemcells[ri[p]])
            IN /\ deploymentStemcellInfoMetric' =
                    WithLabelValues(deploymentStemcellInfoMetric, lvs)
               /\ child' = [child EXCEPT ![p] = [labels |-> lvs, live |-> TRUE]]
               /\ pc' = [pc EXCEPT ![p] = "setStemcellInfo"]
               /\ UNCHANGED ri
       ELSE /\ ri' = [ri EXCEPT ![p] = 0]
            /\ pc' = [pc EXCEPT ![p] = "instances"]
            /\ UNCHANGED <<deploymentStemcellInfoMetric, child>>
  /\ UNCHANGED <<deploymentReleaseInfoMetric, deploymentInstanceCountMetric,
                 lastDeploymentsScrapeTimestampMetric,
                 lastDeploymentsScrapeDurationSecondsMetric, now, snap, begun, reported,
                 vm_type_count, todo, out, returned, stale, prevOut, descs, seen>>

\* reportDeploymentStemcellInfoMetrics: .Set(float64(1)) on the child obtained
SetStemcellInfo(p) ==
  /\ pc[p] = "setStemcellInfo"
  /\ deploymentStemcellInfoMetric' =
       IF child[p].live
         THEN SetChild(deploymentStemcellInfoMetric, child[p].labels, InfoValue)
         ELSE deploymentStemcellInfoMetric
  /\ child' = [child EXCEPT ![p] = NoChild]
  /\ ri' = [ri EXCEPT ![p] = NextIndex(@)]
  /\ pc' = [pc EXCEPT ![p] = "stemcells"]
  /\ UNCHANGED <<deploymentReleaseInfoMetric, deploymentInstanceCountMetric,
                 lastDeploymentsScrapeTimestampMetric,
                 lastDeploymentsScrapeDurationSecondsMetric, now, snap, begun, reported,
                 vm_type_count, todo, out, returned, stale, prevOut, descs, seen>>

\* reportDeploymentInstanceCountMetrics: the map and the tally loop (local)
TallyInstances(p) ==
  /\ pc[p] = "instances"
  /\ vm_type_count' = [vm_type_count EXCEPT ![p] = Tally(Deployment(p).Instances)]
  /\ todo' = [todo EXCEPT ![p] = DOMAIN Tally(Deployment(p).Instances)]
  /\ pc' = [pc EXCEPT ![p] = "vmTypes"]
  /\ UNCHANGED <<containers, now, snap, begun, reported, ri, child, out, returned,
                 stale, prevOut, descs, seen>>

\* reportDeploymentInstanceCountMetrics: the range over the map (in any order) and
\* WithLabelValues(...); past the last key, the next deployment
ReportInstanceCount(p) ==
  /\ pc[p] = "vmTypes"
  /\ \/ \E vm_type \in todo[p] :
          LET lvs == InstanceLabels(Deployment(p), vm_type)
          IN /\ deploymentInstanceCountMetric' =
                  WithLabelValues(deploymentInstanceCountMetric, lvs)
             /\ child' = [child EXCEPT ![p] = [labels |-> lvs, live |-> TRUE]]
             /\ todo' = [todo EXCEPT ![p] = @ \ {vm_type}]
             /\ pc' = [pc EXCEPT ![p] = "setInstanceCount"]
             /\ UNCHANGED <<reported, ri, vm_type_count>>
     \/ /\ todo[p] = {}
        /\ reported' = [reported EXCEPT ![p] = @ + 1]
        /\ ri' = [ri EXCEPT ![p] = 1]
        /\ vm_type_count' = [vm_type_count EXCEPT ![p] = [t \in {} |-> 0]]
        /\ pc' = [pc EXCEPT ![p] = DeploymentsLoop(snap[p], reported[p] + 1)]
        /\ UNCHANGED <<deploymentInstanceCountMetric, child, todo>>
  /\ UNCHANGED <<deploymentReleaseInfoMetric, deploymentStemcellInfoMetric,
                 lastDeploymentsScrapeTimestampMetric,
                 lastDeploymentsScrapeDurationSecondsMetric, now, snap, begun, out,
                 returned, stale, prevOut, descs, seen>>

\* reportDeploymentInstanceCountMetrics: .Set(float64(count))
SetInstanceCount(p) ==
  /\ pc[p] = "setInstanceCount"
  /\ deploymentInstanceCountMetric' =
       SetChild(deploymentInstanceCountMetric, child[p].labels,
                CountValue(vm_type_count[p], child[p].labels[2]))
  /\ child' = [child EXCEPT ![p] = NoChild]
  /\ pc' = [pc EXCEPT ![p] = "vmTypes"]
  /\ UNCHANGED <<deploymentReleaseInfoMetric, deploymentStemcellInfoMetric,
                 lastDeploymentsScrapeTimestampMetric,
                 lastDeploymentsScrapeDurationSecondsMetric, now, snap, begun, reported,
                 ri, vm_type_count, todo, out, returned, stale, prevOut, descs, seen>>

\* c.deploymentReleaseInfoMetric.Collect(ch)
CollectReleaseInfo(p) ==
  /\ pc[p] = "collectReleaseInfo"
  /\ Send(p, ReleaseInfo, CollectVec(deploymentReleaseInfoMetric))
  /\ pc' = [pc EXCEPT ![p] = "collectStemcellInfo"]
  /\ UNCHANGED <<containers, now, snap, begun, reported, ri, vm_type_count, todo, child,
                 returned, stale, prevOut, descs, seen>>

\* c.deploymentStemcellInfoMetric.Collect(ch)
CollectStemcellInfo(p) ==
  /\ pc[p] = "collectStemcellInfo"
  /\ Send(p, StemcellInfo, CollectVec(deploymentStemcellInfoMetric))
  /\ pc' = [pc EXCEPT ![p] = "collectInstanceCount"]
  /\ UNCHANGED <<containers, now, snap, begun, reported, ri, vm_type_count, todo, child,
                 returned, stale, prevOut, descs, seen>>

\* c.deploymentInstanceCountMetric.Collect(ch)
CollectInstanceCount(p) ==
  /\ pc[p] = "collectInstanceCount"
  /\ Send(p, InstanceCount, CollectVec(deploymentInstanceCountMetric))
  /\ pc' = [pc EXCEPT ![p] = "setTimestamp"]
  /\ UNCHANGED <<containers, now, snap, begun, reported, ri, vm_type_count, todo, child,
                 returned, stale, prevOut, descs, seen>>

\* c.lastDeploymentsScrapeTimestampMetric.Set(float64(time.Now().Unix()))
SetTimestamp(p, h) ==
  /\ pc[p] = "setTimestamp"
  /\ \E t \in TimeNow(h) :
       /\ now' = t
       /\ lastDeploymentsScrapeTimestampMetric' = Unix(t)
  /\ pc' = [pc EXCEPT ![p] = "collectTimestamp"]
  /\ UNCHANGED <<deploymentReleaseInfoMetric, deploymentStemcellInfoMetric,
                 deploymentInstanceCountMetric,
                 lastDeploymentsScrapeDurationSecondsMetric, locals, descs, seen>>

\* c.lastDeploymentsScrapeTimestampMetric.Collect(ch)
CollectTimestamp(p) ==
  /\ pc[p] = "collectTimestamp"
  /\ Send(p, ScrapeTimestamp, CollectGauge(lastDeploymentsScrapeTimestampMetric))
  /\ pc' = [pc EXCEPT ![p] = "setDuration"]
  /\ UNCHANGED <<containers, now, snap, begun, reported, ri, vm_type_count, todo, child,
                 returned, stale, prevOut, descs, seen>>

\* c.lastDeploymentsScrapeDurationSecondsMetric.Set(time.Since(begun).Seconds())
SetDuration(p, h) ==
  /\ pc[p] = "setDuration"
  /\ \E t \in TimeNow(h) :
       /\ now' = t
       /\ lastDeploymentsScrapeDurationSecondsMetric' = Since(t, begun[p])
  /\ pc' = [pc EXCEPT ![p] = "collectDuration"]
  /\ UNCHANGED <<deploymentReleaseInfoMetric, deploymentStemcellInfoMetric,
                 deploymentInstanceCountMetric, lastDeploymentsScrapeTimestampMetric,
                 locals, descs, seen>>

\* c.lastDeploymentsScrapeDurationSecondsMetric.Collect(ch)
CollectDuration(p) ==
  /\ pc[p] = "collectDuration"
  /\ Send(p, ScrapeDuration, CollectGauge(lastDeploymentsScrapeDurationSecondsMetric))
  /\ pc' = [pc EXCEPT ![p] = "return"]
  /\ UNCHANGED <<containers, now, snap, begun, reported, ri, vm_type_count, todo, child,
                 returned, stale, prevOut, descs, seen>>

\* return nil
Return(p) ==
  /\ pc[p] = "return"
  /\ returned' = [returned EXCEPT ![p] = "nil"]
  /\ begun' = [begun EXCEPT ![p] = 0]
  /\ ri' = [ri EXCEPT ![p] = 0]
  /\ pc' = [pc EXCEPT ![p] = "returned"]
  /\ UNCHANGED <<containers, now, snap, reported, vm_type_count, todo, child, out,
                 stale, prevOut, descs, seen>>

(***************************************************************************)
(* Describe.                                                               *)
(***************************************************************************)
\* (mutation of DescribeMetric: only the vectors are described)
DescribeVectorOnly(ch, family) ==
  IF family \in DeploymentFamilies THEN Append(ch, family) ELSE ch

\* GaugeVec.Describe and Gauge.Describe: the one descriptor of the family
DescribeMetric(ch, family) == Append(ch, family)

\* the five Describe calls, in order
DescribeAll ==
  DescribeMetric(DescribeMetric(DescribeMetric(DescribeMetric(DescribeMetric(<<>>,
    ReleaseInfo), StemcellInfo), InstanceCount), ScrapeTimestamp), ScrapeDuration)

Describe(p) ==
  /\ pc[p] = "idle"
  /\ descs' = DescribeAll
  /\ pc' = [pc EXCEPT ![p] = "described"]
  /\ UNCHANGED <<containers, now, locals, seen>>

\* the caller of Describe has read the descriptors off the channel
Described(p) ==
  /\ pc[p] = "described"
  /\ descs' = <<>>
  /\ pc' = [pc EXCEPT ![p] = "idle"]
  /\ UNCHANGED <<containers, now, locals, seen>>

(***************************************************************************)
(* Specifications.                                                         *)
(***************************************************************************)
\* the statements of Collect that do not read the clock
Work(p) ==
  \/ ResetReleaseInfo(p)
  \/ ResetStemcellInfo(p)
  \/ ReportReleaseInfo(p)
  \/ SetReleaseInfo(p)
  \/ ReportStemcellInfo(p)
  \/ SetStemcellInfo(p)
  \/ TallyInstances(p)
  \/ ReportInstanceCount(p)
  \/ SetInstanceCount(p)
  \/ CollectReleaseInfo(p)
  \/ CollectStemcellInfo(p)
  \/ CollectInstanceCount(p)
  \/ CollectTimestamp(p)
  \/ CollectDuration(p)
  \/ Return(p)
  \/ Discard(p)

\* Serialized scrapes: one caller, one call at a time, any snapshot.  All the calls
\* fall within one second of the clock (every reading is the latest reading).
Next ==
  \E p \in Scheduler :
    \/ \E S \in Snapshots : Collect(p, S, now)
    \/ CollectAgain(p, now)
    \/ SetTimestamp(p, now)
    \/ SetDuration(p, now)
    \/ Work(p)
    \/ Describe(p)
    \/ Described(p)

Spec == Init /\ [][Next]_vars

\* Serialized scrapes of small snapshots under a clock that advances.
NextClock ==
  \E p \in Scheduler :
    \/ \E S \in SmallSnapshots : Collect(p, S, MaxClock)
    \/ CollectAgain(p, MaxClock)
    \/ SetTimestamp(p, MaxClock)
    \/ SetDuration(p, MaxClock)
    \/ Work(p)

SpecClock == Init /\ [][NextClock]_vars

\* Serialized scrapes in which a call that has started keeps running: the caller's
\* goroutine is scheduled, and the receiver of ch keeps receiving, so that no
\* statement of Collect waits for ever.
Statement(p) ==
  /\ pc[p] \notin {"idle", "returned", "described"}
  /\ (Work(p) \/ SetTimestamp(p, now) \/ SetDuration(p, now))

SpecLive == Init /\ [][Next]_vars /\ \A p \in Scheduler : WF_vars(Statement(p))

\* Two callers with no synchronization between them, each making one call with a
\* small snapshot; the calls overlap within one second of the clock.
NextConc ==
  \E p \in Procs :
    \/ \E S \in SmallSnapshots : returned[p] = "none" /\ Collect(p, S, now)
    \/ SetTimestamp(p, now)
    \/ SetDuration(p, now)
    \/ Work(p)

SpecConc == Init /\ [][NextConc]_vars


(***************************************************************************)
(* What the properties speak of.                                           *)
(***************************************************************************)
\* the caller's Collect has returned and the caller still holds what it sent
Completed(p) == pc[p] = "returned"

\* the caller is inside Collect
InCollect(p) == pc[p] \notin {"idle", "returned", "described"}

\* the samples of one family in what a call sent, and their label combinations
SamplesIn(sent, family) ==
  UNION {sent[i].samples : i \in {k \in DOMAIN sent : sent[k].family = family}}

Emitted(p, family) == SamplesIn(out[p], family)

EmittedLabels(p, family) == {s.labels : s \in Emitted(p, family)}

\* the number of samples of one family that a call sent
SampleCount(p, family) ==
  Cardinality(UNION {{<<i, s>> : s \in out[p][i].samples} :
                       i \in {k \in DOMAIN out[p] : out[p][k].family = family}})

(***************************************************************************)
(* C1: after serialized Collect calls ending in Collect(S), release_info   *)
(* holds and emits exactly the (deployment, release_name, release_version) *)
(* triples of S, and stemcell_info exactly the stemcell tuples of S; no    *)
(* combination of an earlier snapshot remains.                             *)
(***************************************************************************)
InfoLabelsAreTheSnapshots ==
  \A p \in Procs :
    Completed(p) =>
      /\ DOMAIN deploymentReleaseInfoMetric = ReleaseCombos(snap[p])
      /\ EmittedLabels(p, ReleaseInfo) = ReleaseCombos(snap[p])
      /\ DOMAIN deploymentStemcellInfoMetric = StemcellCombos(snap[p])
      /\ EmittedLabels(p, StemcellInfo) = StemcellCombos(snap[p])

\* a call has returned that found combinations its snapshot does not have, and
\* whose snapshot has a release and a stemcell
StaleInfoLabelsDropped ==
  \E p \in Procs :
    /\ Completed(p)
    /\ stale[p]
    /\ ReleaseCombos(snap[p]) # {}
    /\ StemcellCombos(snap[p]) # {}

(***************************************************************************)
(* C2: the instance_count samples that a Collect(S) emits are exactly the  *)
(* (deployment, vm_type) pairs with at least one instance in S; a pair of  *)
(* an earlier snapshot with no instance in S yields no sample.             *)
(***************************************************************************)
InstanceCountLabelsAreTheSnapshots ==
  \A p \in Procs :
    Completed(p) => EmittedLabels(p, InstanceCount) = InstancePairs(snap[p])

(***************************************************************************)
(* C3: after Collect(S), for every deployment d of S and every VM type t   *)
(* among d's instances, instance_count{d, t} is the number of instances of *)
(* d whose VMType is t, whatever the pair held before.                     *)
(***************************************************************************)
InstanceCountIsTheTally ==
  \A p \in Procs :
    Completed(p) =>
      \A lvs \in InstancePairs(snap[p]) :
        /\ lvs \in DOMAIN deploymentInstanceCountMetric
        /\ deploymentInstanceCountMetric[lvs] = InstanceTotal(snap[p], lvs)
        /\ [labels |-> lvs, value |-> InstanceTotal(snap[p], lvs)]
             \in Emitted(p, InstanceCount)

\* a call has returned whose snapshot has two instances of one VM type in a
\* deployment, on a collector that held pairs of earlier snapshots
TallyOfTwoInstances ==
  \E p \in Procs :
    /\ Completed(p)
    /\ \E lvs \in InstancePairs(snap[p]) : InstanceTotal(snap[p], lvs) > 1
    /\ DOMAIN deploymentInstanceCountMetric \ InstancePairs(snap[p]) # {}

(***************************************************************************)
(* C4: Collect with an empty snapshot, in any reachable state, emits no    *)
(* sample of release_info, stemcell_info and instance_count, and exactly   *)
(* one sample each of the scrape timestamp and the scrape duration.        *)
(***************************************************************************)
EmptySnapshotEmitsNoDeploymentSample ==
  \A p \in Procs :
    (Completed(p) /\ snap[p] = <<>>) =>
      /\ \A family \in DeploymentFamilies : SampleCount(p, family) = 0
      /\ SampleCount(p, ScrapeTimestamp) = 1
      /\ SampleCount(p, ScrapeDuration) = 1

(***************************************************************************)
(* C5: two consecutive serialized calls Collect(S); Collect(S) emit the    *)
(* same (label-set, value) samples of release_info, stemcell_info and      *)
(* instance_count.                                                         *)
(***************************************************************************)
CollectTwiceEmitsTheSame ==
  \A p \in Procs :
    (Completed(p) /\ prevOut[p] # NoOut) =>
      \A family \in DeploymentFamilies :
        Emitted(p, family) = SamplesIn(prevOut[p], family)

\* the second of two calls with one snapshot has returned; the snapshot has a
\* release and an instance
SecondCallReturned ==
  \E p \in Procs :
    /\ Completed(p)
    /\ prevOut[p] # NoOut
    /\ ReleaseCombos(snap[p]) # {}
    /\ InstancePairs(snap[p]) # {}

(***************************************************************************)
(* C6: duplicate records collapse: Collect emits one release_info sample   *)
(* (one stemcell_info sample) per distinct label combination of the        *)
(* snapshot, each of value 1, however many records carry the combination.  *)
(***************************************************************************)
OneInfoSamplePerCombination ==
  \A p \in Procs :
    Completed(p) =>
      /\ SampleCount(p, ReleaseInfo) = Cardinality(ReleaseCombos(snap[p]))
      /\ SampleCount(p, StemcellInfo) = Cardinality(StemcellCombos(snap[p]))
      /\ \A s \in Emitted(p, ReleaseInfo) \cup Emitted(p, StemcellInfo) : s.value = 1

\* a call has returned whose snapshot lists one release pair twice, or one
\* stemcell twice, in a deployment
DuplicateRecordCollected ==
  \E p \in Procs :
    /\ Completed(p)
    /\ \E i \in DOMAIN snap[p] :
         \/ /\ Len(snap[p][i].Releases) > 1
            /\ snap[p][i].Releases[1] = snap[p][i].Releases[2]
         \/ /\ Len(snap[p][i].Stemcells) > 1
            /\ snap[p][i].Stemcells[1] = snap[p][i].Stemcells[2]

(***************************************************************************)
(* C7: after serialized Collect calls ending in Collect(S), a deployment   *)
(* of S with no release has no release_info sample, one with no stemcell   *)
(* no stemcell_info sample, one with no instance no instance_count sample  *)
(* of its name; and no sample of the three families has an empty label     *)
(* value.                                                                  *)
(***************************************************************************)
NoSampleForAnEmptyDeployment ==
  \A p \in Procs :
    Completed(p) =>
      /\ \A i \in DOMAIN snap[p] :
           /\ snap[p][i].Releases = <<>> =>
                \A s \in Emitted(p, ReleaseInfo) : s.labels[1] # snap[p][i].Name
           /\ snap[p][i].Stemcells = <<>> =>
                \A s \in Emitted(p, StemcellInfo) : s.labels[1] # snap[p][i].Name
           /\ snap[p][i].Instances = <<>> =>
                \A s \in Emitted(p, InstanceCount) : s.labels[1] # snap[p][i].Name
      /\ \A family \in DeploymentFamilies :
           \A s \in Emitted(p, family) : \A k \in DOMAIN s.labels : s.labels[k] # ""

(***************************************************************************)
(* C8: Collect has no failure path: no statement of a running call is      *)
(* stuck, every call returns nil, and it returns only once every           *)
(* deployment of the snapshot was reported after the reset.                *)
(***************************************************************************)
CollectReturnsNil ==
  \A p \in Procs :
    /\ InCollect(p) =>
         ENABLED (Work(p) \/ SetTimestamp(p, now) \/ SetDuration(p, now))
    /\ Completed(p) =>
         /\ returned[p] = "nil"
         /\ reported[p] = Len(snap[p])

\* a call on two deployments has returned that found stale combinations
TwoDeploymentsReported ==
  \E p \in Procs :
    /\ Completed(p)
    /\ Len(snap[p]) > 1
    /\ stale[p]
    /\ returned[p] = "nil"

(***************************************************************************)
(* C9: Describe emits exactly one descriptor for each of the five metric   *)
(* families; it can be called before any Collect and between any two       *)
(* calls, always emits the same descriptors, and changes no stored sample. *)
(***************************************************************************)
FiveFamilies == {ReleaseInfo, StemcellInfo, InstanceCount, ScrapeTimestamp, ScrapeDuration}

OncePerFamily(sent) ==
  /\ Len(sent) = Cardinality(FiveFamilies)
  /\ {sent[i] : i \in DOMAIN sent} = FiveFamilies

DescribeIsStaticAndPure ==
  /\ [](\A p \in Scheduler : pc[p] = "idle" => ENABLED Describe(p))
  /\ [][\A p \in Procs :
          (pc[p] = "idle" /\ pc'[p] = "described") =>
             /\ OncePerFamily(descs')
             /\ containers' = containers]_vars

\* Describe was called on a collector that holds samples of every vector
DescribedAfterCollect ==
  \E p \in Procs :
    /\ pc[p] = "described"
    /\ DOMAIN deploymentReleaseInfoMetric # {}
    /\ DOMAIN deploymentStemcellInfoMetric # {}
    /\ DOMAIN deploymentInstanceCountMetric # {}

(***************************************************************************)
(* C10: when two Collect calls run concurrently with no synchronization,   *)
(* the release_info and stemcell_info samples that each call emits are     *)
(* exactly the label combinations of that call's own snapshot.             *)
(***************************************************************************)
ConcurrentCollectEmitsOwnLabels ==
  \A p \in Procs :
    Completed(p) =>
      /\ EmittedLabels(p, ReleaseInfo) = ReleaseCombos(snap[p])
      /\ EmittedLabels(p, StemcellInfo) = StemcellCombos(snap[p])


(***************************************************************************)
(* C11: within one Collect call nothing of release_info, stemcell_info or  *)
(* instance_count is sent before every deployment of the snapshot has been *)
(* reported; the three families are sent in that order, then the scrape    *)
(* timestamp, then the scrape duration; so under serialized calls what is  *)
(* sent of release_info and stemcell_info is never the reset and not yet   *)
(* repopulated state.                                                      *)
(***************************************************************************)
EmissionOrder ==
  <<ReleaseInfo, StemcellInfo, InstanceCount, ScrapeTimestamp, ScrapeDuration>>

EmitsAfterPopulatingInOrder ==
  \A p \in Procs :
    /\ Len(out[p]) <= Len(EmissionOrder)
    /\ \A i \in DOMAIN out[p] : out[p][i].family = EmissionOrder[i]
    /\ out[p] # <<>> =>
         /\ reported[p] = Len(snap[p])
         /\ EmittedLabels(p, ReleaseInfo) = ReleaseCombos(snap[p])
    /\ Len(out[p]) > 1 => EmittedLabels(p, StemcellInfo) = StemcellCombos(snap[p])

\* a call that found stale combinations has sent release_info and stemcell_info,
\* one sample each, and is about to send instance_count
InfoFamiliesSent ==
  \E p \in Procs :
    /\ pc[p] = "collectInstanceCount"
    /\ stale[p]
    /\ Emitted(p, ReleaseInfo) # {}
    /\ Emitted(p, StemcellInfo) # {}


(***************************************************************************)
(* C12: every release_info and stemcell_info sample that any Collect call  *)
(* sends has value 1, also when another Collect runs concurrently: no send *)
(* observes a label combination between its creation and its Set(1).      *)
(***************************************************************************)
InfoSamplesAreOne ==
  \A p \in Procs :
    \A s \in Emitted(p, ReleaseInfo) \cup Emitted(p, StemcellInfo) : s.value = 1


(***************************************************************************)
(* C13: every Collect call on a finite snapshot runs to completion: while  *)
(* the receiver of the samples keeps receiving, a started call goes on to  *)
(* send the scrape timestamp and the scrape duration and returns nil; it   *)
(* does not stop between the reset and the emission.                       *)
(***************************************************************************)
CollectRunsToCompletion ==
  \A p \in Scheduler :
    (pc[p] = "resetReleaseInfo") ~>
      (/\ pc[p] = "returned"
       /\ returned[p] = "nil"
       /\ SampleCount(p, ScrapeTimestamp) = 1
       /\ SampleCount(p, ScrapeDuration) = 1)

\* a call has reset release_info and stemcell_info and not yet repopulated them
ResetNotYetRepopulated ==
  \E p \in Procs :
    /\ pc[p] = "releases"
    /\ reported[p] = 0
    /\ stale[p]
    /\ ReleaseCombos(snap[p]) # {}
    /\ DOMAIN deploymentReleaseInfoMetric = {}


(***************************************************************************)
(* C14: with a clock that never goes backwards, under serialized calls the *)
(* scrape duration that a Collect sets is >= 0 and the scrape timestamp it *)
(* sets is >= the one set by every earlier call; each call overwrites the  *)
(* two gauges (with the clock's seconds, and with the time since its own   *)
(* begun) and sends one sample of each, carrying the value it set.         *)
(***************************************************************************)
ScrapeGaugesFollowTheClock ==
  [][/\ now' >= now
     /\ lastDeploymentsScrapeDurationSecondsMetric' >= 0
     /\ lastDeploymentsScrapeTimestampMetric' >= lastDeploymentsScrapeTimestampMetric
     /\ lastDeploymentsScrapeTimestampMetric'
          \in {lastDeploymentsScrapeTimestampMetric, Unix(now')}
     /\ \A p \in Scheduler :
          /\ lastDeploymentsScrapeDurationSecondsMetric'
               \in {lastDeploymentsScrapeDurationSecondsMetric, now' - begun[p]}
          /\ pc'[p] = "returned" =>
               /\ Emitted(p, ScrapeTimestamp)'
                    = CollectGauge(lastDeploymentsScrapeTimestampMetric')
               /\ Emitted(p, ScrapeDuration)'
                    = CollectGauge(lastDeploymentsScrapeDurationSecondsMetric')
               /\ SampleCount(p, ScrapeTimestamp)' = 1
               /\ SampleCount(p, ScrapeDuration)' = 1]_vars

\* a later call that took time has returned, after the clock's seconds had advanced
\* past an earlier call's
LaterScrapeTookTime ==
  \E p \in Scheduler :
    /\ Completed(p)
    /\ prevOut[p] # NoOut
    /\ lastDeploymentsScrapeTimestampMetric > 0
    /\ lastDeploymentsScrapeDurationSecondsMetric > 0
    /\ lastDeploymentsScrapeDurationSecondsMetric < now


(***************************************************************************)
(* C15: Collect never removes an instance_count label combination; after   *)
(* any sequence of serialized Collect calls the stored instance_count      *)
(* pairs are the (deployment, vm_type) pairs of all snapshots so far, each *)
(* value is >= 1 and is the tally of the latest snapshot in which the pair *)
(* had an instance.                                                        *)
(***************************************************************************)
InstanceCountKeepsEverySeenPair ==
  [][/\ DOMAIN deploymentInstanceCountMetric \subseteq DOMAIN deploymentInstanceCountMetric'
     /\ (\A p \in Scheduler : ~InCollect(p)') =>
          /\ deploymentInstanceCountMetric' = seen'
          /\ \A lvs \in DOMAIN deploymentInstanceCountMetric' :
               deploymentInstanceCountMetric'[lvs] >= 1]_vars

\* a call has returned whose snapshot lacks a pair that an earlier snapshot had, and
\* gives another tally to a pair that is stored
EarlierPairKeptByLaterCall ==
  \E p \in Scheduler :
    /\ Completed(p)
    /\ DOMAIN deploymentInstanceCountMetric \ InstancePairs(snap[p]) # {}
    /\ \E lvs \in InstancePairs(snap[p]) : deploymentInstanceCountMetric[lvs] = 2

====
